---------------------------- MODULE Spec2Model ----------------------------
(***************************************************************************)
(* Model of src/gowin.cpp: the Gowin FPGA programming session (class       *)
(* Gowin).  The session is a sequential program; it is modelled as a       *)
(* state machine with a program counter (pc), a stack of return labels     *)
(* and the values the JTAG transport hands back (status register reads,    *)
(* boundary-scan captures) drawn nondeterministically at every read.       *)
(***************************************************************************)
EXTENDS Integers, Sequences, FiniteSets, TLC

(***************************************************************************)
(* Bounds of the model                                                     *)
(***************************************************************************)
\* pollFlag's iteration cap (100000000 in the source, line 443), scaled.
PollBudget == 2
\* spi_put is handed at most this many bytes
MaxSpiLen == 2
\* the timeouts spi_wait is handed
MaxSpiTimeout == 3
\* spi_wait is followed for this many reads
MaxSpiReads == 5
\* image lengths (bytes) handed to writeFLASH: p*256 + d, d in -1..MaxTail
MaxFullPages == 2
MaxTail == 4

(***************************************************************************)
(* Machine integers                                                        *)
(***************************************************************************)
RECURSIVE BitAnd(_, _)
BitAnd(a, b) ==
    IF a = 0 \/ b = 0 THEN 0
    ELSE (a % 2) * (b % 2) + 2 * BitAnd(a \div 2, b \div 2)

RECURSIVE BitOr(_, _)
BitOr(a, b) ==
    IF a = 0 THEN b
    ELSE IF b = 0 THEN a
    ELSE (IF a % 2 = 1 \/ b % 2 = 1 THEN 1 ELSE 0) + 2 * BitOr(a \div 2, b \div 2)


(***************************************************************************)
(* Command codes and status register bits (lines 31-62)                    *)
(***************************************************************************)
NOOP == 2
ERASE_SRAM == 5
XFER_DONE == 9
INIT_ADDR == 18
READ_USERCODE == 19
CONFIG_ENABLE == 21
XFER_WRITE == 23
CONFIG_DISABLE == 58
RELOAD == 60
STATUS_REGISTER == 65
EF_PROGRAM == 113
EFLASH_ERASE == 117

STATUS_MEMORY_ERASE == 2 ^ 5
STATUS_SYSTEM_EDIT_MODE == 2 ^ 7
STATUS_GOWIN_VLD == 2 ^ 12
STATUS_DONE_FINAL == 2 ^ 13
STATUS_POR == 2 ^ 16

\* the idcodes the constructor distinguishes (lines 141-176), and one it
\* does not
GW1N1 == \h0900281B
GW1N4 == \h0100381B
GW1NZ1 == \h0100681B
GW1NSR4C == \h0100981B
GW2A18 == \h0000081B
GW2A55 == \h0000281B
GW5AST138 == \h0001081B
GW5AT138 == \h0001181B
GW5A25 == \h0001281B
GW1N9 == \h0100481B


(***************************************************************************)
(* State                                                                   *)
(***************************************************************************)
VARIABLES
    idcode,          \* _jtag->get_target_device_id()
    file_ext,        \* _file_extension: "" (no file), "fs" or "bin"
    prg_type,        \* constructor argument prg_type
    external_flash,  \* constructor argument external_flash
    mcufw,           \* constructor argument mcufw is non-empty
    verbose,         \* _verbose
    dev,             \* the session's fields after construction
    fs_idcode,       \* the idcode the fs header declares (0: none read)
    path,            \* the function program() dispatched to ("none": not yet)
    pc,              \* position in the program
    stack,           \* return labels of the calls in progress
    ret,             \* value returned by the call that just ended
    outcome,         \* "none", "returned" (normal return) or "threw"
    err,             \* what() of the exception thrown
    poll,            \* pollFlag's arguments and locals
    es,              \* eraseSRAM's step log and result
    ef,              \* eraseFLASH's locals
    wf,              \* writeFLASH's arguments and locals
    wf_sent,         \* the pages writeFLASH shifted: <<address, 64 words>>
    ws,              \* writeSRAM's locals
    ws_chunks,       \* the chunks writeSRAM shifted: <<bits, next TAP state>>
    crc,             \* what checkCRC read and reported
    ps,              \* what programSRAM sent before the erase, and its calls
    spi,             \* arguments and locals of spi_put / spi_wait
    mon,             \* observer of the JTAG operations sent to the device
    stepFailed       \* the steps that reported a failure so far

argVars == <<idcode, file_ext, prg_type, external_flash, mcufw, verbose>>
sessVars == <<dev, fs_idcode, path>>
ctlVars == <<pc, stack, ret, outcome, err>>
locVars == <<poll, es, ef, wf, wf_sent, ws, ws_chunks, crc, ps>>
obsVars == <<mon, stepFailed>>
vars == <<argVars, sessVars, ctlVars, locVars, spi, obsVars>>

(***************************************************************************)
(* The JTAG operations the session sends, and their observer.  An          *)
(* operation is [k, v]: "ir" (shiftIR of command v), "dr" (shiftDR; v      *)
(* names what is shifted), "clk" (toggleClk), "tap" (set_state), "raw"     *)
(* (the erase pulse of eraseFLASH), "spi" (a transfer of the external      *)
(* flash driver through spi_put / spi_wait).                               *)
(***************************************************************************)
Op(k, v) == [k |-> k, v |-> v]

\* Gowin::send_command: shiftIR(cmd, 8) then toggleClk(5)
send_command(cmd) == <<Op("ir", cmd), Op("clk", 5)>>

\* Gowin::readReg32: send_command(cmd) then a 32-bit shiftDR capturing the register
readReg32(cmd) == send_command(cmd) \o <<Op("dr", "reg")>>

readStatusReg == readReg32(STATUS_REGISTER)

readUserCode == readReg32(READ_USERCODE)

\* Gowin::sendClkUs: toggleClk(getClkFreq() * us / 1000000)
sendClkUs(us) == <<Op("clk", us)>>

\* Gowin::reset: RELOAD then NOOP
reset == send_command(RELOAD) \o send_command(NOOP)

\* displayReadReg(..., readStatusReg()) under if (_verbose)
VerboseRead == IF verbose THEN readStatusReg ELSE <<>>

\* commands and shifts that erase or write configuration memory
PayloadCmds ==
    {ERASE_SRAM, XFER_DONE, INIT_ADDR, XFER_WRITE, EF_PROGRAM, EFLASH_ERASE,
     10, 8, 61, 22}

IsPayload(op) ==
    \/ op.k = "ir" /\ op.v \in PayloadCmds
    \/ op.k = "dr" /\ op.v # "reg"
    \/ op.k \in {"raw", "spi"}

\* gate: "closed" (no CONFIG_ENABLE since the last CONFIG_DISABLE), "sent"
\* (CONFIG_ENABLE sent, edit mode not seen) or "polled" (enableCfg's poll
\* succeeded).  open: a payload was sent since the last CONFIG_DISABLE.
\* bad: <<sequence, kind, result>> for each payload sent outside a polled
\* gate and each sequence that returned with a payload not followed by a
\* CONFIG_DISABLE.
MonInit == [gate |-> "closed", touched |-> FALSE, open |-> FALSE, bad |-> {}]

MonStep(m, op, seq) ==
    LET pay == IsPayload(op)
        g == IF op.k = "ir" /\ op.v = CONFIG_ENABLE THEN "sent"
             ELSE IF op.k = "ir" /\ op.v = CONFIG_DISABLE THEN "closed"
             ELSE m.gate
        o == IF op.k = "ir" /\ op.v = CONFIG_DISABLE THEN FALSE
             ELSE (m.open \/ pay)
        b == IF pay /\ m.gate # "polled"
             THEN m.bad \cup {<<seq, IF m.gate = "sent" THEN "unpolled" ELSE "closed", FALSE>>}
             ELSE m.bad
    IN  [gate |-> g, touched |-> TRUE, open |-> o, bad |-> b]

RECURSIVE MonFold(_, _, _)
MonFold(m, ops, seq) ==
    IF ops = <<>> THEN m
    ELSE MonFold(MonStep(m, Head(ops), seq), Tail(ops), seq)

\* the sequence seq returns result
MonReturn(m, seq, result) ==
    IF m.open THEN [m EXCEPT !.bad = @ \cup {<<seq, "noDisable", result>>}]
    ELSE m

Emit(ops, seq) == mon' = MonFold(mon, ops, seq)

EmitReturn(ops, seq, result) == mon' = MonReturn(MonFold(mon, ops, seq), seq, result)

(***************************************************************************)
(* Control                                                                 *)
(***************************************************************************)
Ctl(p, s, r) == pc' = p /\ stack' = s /\ ret' = r /\ UNCHANGED <<outcome, err>>

Jump(p) == Ctl(p, stack, FALSE)

Call(callee, back) == Ctl(callee, <<back>> \o stack, FALSE)

Return(v) == Ctl(Head(stack), Tail(stack), v)

Throw(e) ==
    pc' = "exit" /\ stack' = <<>> /\ ret' = FALSE /\ outcome' = "threw" /\ err' = e

Fail(tag) == stepFailed' = stepFailed \cup {tag}

(***************************************************************************)
(* Values the transport and the image hand back                            *)
(***************************************************************************)
\* what a read of the status register may return: every combination of the
\* flags the session looks at
StatusValues ==
    {me + sem + vld + done + por :
        me \in {0, STATUS_MEMORY_ERASE}, sem \in {0, STATUS_SYSTEM_EDIT_MODE},
        vld \in {0, STATUS_GOWIN_VLD}, done \in {0, STATUS_DONE_FINAL},
        por \in {0, STATUS_POR}}

Idcodes == {GW1N1, GW1N4, GW1NSR4C, GW2A18, GW5A25, GW1N9}

\* the idcode an fs header may declare for hardware id: the same, the same
\* with another version nibble, or an unrelated one
DeclaredIdcodes(id) == {id, id + \h10000000, \h12345678}


(***************************************************************************)
(* Gowin::Gowin (lines 78-192)                                             *)
(***************************************************************************)
\* the fields before the constructor body has run (initializer list, 81-88)
DevNew ==
    [fs |-> FALSE, mcufw |-> FALSE, mode |-> "MEM_MODE",
     is_gw1n1 |-> FALSE, is_gw2a |-> FALSE, is_gw1n4 |-> FALSE, is_gw5a |-> FALSE,
     external_flash |-> FALSE, skip_checksum |-> FALSE,
     spi_sck |-> 2 ^ 1, spi_cs |-> 2 ^ 3, spi_di |-> 2 ^ 5, spi_do |-> 2 ^ 7,
     spi_msk |-> 2 ^ 6]

\* lines 92-95
ModeOf(prg) == IF prg = "WR_FLASH" THEN "FLASH_MODE" ELSE "MEM_MODE"

\* a faulty variant: the version nibble is not masked
IdcodeMismatch_NoMask(decl, id) == decl # id

\* line 131: the fs header's idcode, version nibble masked, against the target's
IdcodeMismatch(decl, id) == BitAnd(decl, \h0fffffff) # id

\* line 141
IsGw1n1(id) == id = GW1N1

\* line 144
IsGw1n4(id) == id = GW1N4 \/ id = GW1NZ1

\* lines 161-162
IsGw2a(id) == id \in {GW2A18, GW2A55}

\* lines 168-170
IsGw5a(id) == id \in {GW5AST138, GW5AT138, GW5A25}

\* lines 148-154: the GW1NSR-4C pin mapping replaces the common one
SpiPins(id) ==
    IF id = GW1NSR4C
    THEN [sck |-> 2 ^ 7, cs |-> 2 ^ 5, di |-> 2 ^ 3, do |-> 2 ^ 1, msk |-> 2 ^ 0]
    ELSE [sck |-> 2 ^ 1, cs |-> 2 ^ 3, di |-> 2 ^ 5, do |-> 2 ^ 7, msk |-> 2 ^ 6]

\* a faulty variant: the firmware is accepted on every idcode
CtorError_AnyMcu(open_ok, parse_ok, decl, mcu_ok) ==
    IF file_ext # "" /\ file_ext # "fs" /\ ~external_flash
    THEN "incompatible file format"
    ELSE IF file_ext # "" /\ ~open_ok THEN "can't open file"
    ELSE IF file_ext # "" /\ ~parse_ok THEN "can't parse file"
    ELSE IF file_ext = "fs" /\ IdcodeMismatch(decl, idcode) THEN "idcode mismatch"
    ELSE IF mcufw /\ ~mcu_ok THEN "can't parse file"
    ELSE ""

\* the exception the constructor throws, "" when it throws none, in the
\* order of the constructor body
CtorError(open_ok, parse_ok, decl, mcu_ok) ==
    IF file_ext # "" /\ file_ext # "fs" /\ ~external_flash
    THEN "incompatible file format"
    ELSE IF file_ext # "" /\ ~open_ok THEN "can't open file"
    ELSE IF file_ext # "" /\ ~parse_ok THEN "can't parse file"
    ELSE IF file_ext = "fs" /\ IdcodeMismatch(decl, idcode) THEN "idcode mismatch"
    ELSE IF mcufw /\ idcode # GW1NSR4C THEN "mcufw only on GW1NSR-4C"
    ELSE IF mcufw /\ ~mcu_ok THEN "can't parse file"
    ELSE ""

\* the fields the constructor leaves.  skip_checksum is in no initializer of
\* this file and is only ever assigned true: where the switch does not set
\* it, it keeps whatever its declaration gives it (skip0).
DevOf(skip0) ==
    [fs |-> file_ext # "", mcufw |-> mcufw, mode |-> ModeOf(prg_type),
     is_gw1n1 |-> IsGw1n1(idcode), is_gw2a |-> IsGw2a(idcode),
     is_gw1n4 |-> IsGw1n4(idcode), is_gw5a |-> IsGw5a(idcode),
     external_flash |-> (external_flash \/ IsGw2a(idcode) \/ IsGw5a(idcode)),
     skip_checksum |-> (skip0 \/ IsGw2a(idcode) \/ IsGw5a(idcode)),
     spi_sck |-> SpiPins(idcode).sck, spi_cs |-> SpiPins(idcode).cs,
     spi_di |-> SpiPins(idcode).di, spi_do |-> SpiPins(idcode).do,
     spi_msk |-> SpiPins(idcode).msk]

Construct ==
    /\ pc = "new"
    /\ \E open_ok, parse_ok, mcu_ok, skip0 \in BOOLEAN :
       \E decl \in (IF file_ext = "fs" /\ open_ok /\ parse_ok
                    THEN DeclaredIdcodes(idcode) ELSE {0}) :
          LET e == CtorError(open_ok, parse_ok, decl, mcu_ok) IN
          /\ fs_idcode' = decl
          /\ path' = path
          /\ IF e # ""
             THEN Throw(e) /\ dev' = dev
             ELSE /\ dev' = DevOf(skip0)
                  /\ pc' = "constructed"
                  /\ UNCHANGED <<stack, ret, outcome, err>>
    /\ UNCHANGED <<argVars, spi, locVars, obsVars>>

(***************************************************************************)
(* Gowin::program (lines 343-360)                                          *)
(***************************************************************************)
\* a faulty variant: the GW5A test is missing
FlashUnsupported_Never(d) == FALSE

\* line 349
FlashUnsupported(d) == d.is_gw5a

\* lines 348-357: the function program() hands over to
Dispatch(d) ==
    IF d.mode = "FLASH_MODE"
    THEN IF d.external_flash THEN "programExtFlash" ELSE "programFlash"
    ELSE "programSRAM"

\* a faulty variant: the test for an image is missing
NoImage_Never(d) == FALSE

\* line 345: if (!_fs)
NoImage(d) == ~d.fs

Program ==
    /\ pc = "constructed"
    /\ IF NoImage(dev)
       THEN /\ pc' = "exit" /\ outcome' = "returned"
            /\ UNCHANGED <<stack, ret, err, path>>
       ELSE IF dev.mode = "FLASH_MODE" /\ FlashUnsupported(dev)
       THEN Throw("write to flash on GW5A is not yet supported") /\ path' = path
       ELSE Call(Dispatch(dev), "program_ret") /\ path' = Dispatch(dev)
    /\ UNCHANGED <<argVars, spi, dev, fs_idcode, locVars, obsVars>>

\* program()'s callee returned normally: so does program()
ProgramReturn ==
    /\ pc = "program_ret"
    /\ pc' = "exit" /\ outcome' = "returned"
    /\ UNCHANGED <<stack, ret, err>>
    /\ UNCHANGED <<argVars, spi, sessVars, locVars, obsVars>>

(***************************************************************************)
(* Gowin::pollFlag (lines 435-451)                                         *)
(***************************************************************************)
\* reads: status reads made; hit: the first read that satisfied
\* (status & mask) == value (0: none); result: the value returned
\* the steps of the eraseSRAM call in progress (on), in the order they were
\* issued; polls: what its polls returned; finalRead: done-final in the
\* status read at line 701 ("none": not read yet); result: the value returned
EsIdle == [on |-> FALSE, steps |-> <<>>, polls |-> <<>>, finalRead |-> "none",
          result |-> FALSE]

\* the commands eraseSRAM and the functions it calls send
StepName(cmd) ==
    CASE cmd = CONFIG_ENABLE -> "config-enable"
      [] cmd = CONFIG_DISABLE -> "config-disable"
      [] cmd = ERASE_SRAM -> "erase-sram"
      [] cmd = XFER_DONE -> "transfer-done"
      [] cmd = NOOP -> "no-op"
      [] cmd = RELOAD -> "reload"
      [] cmd = STATUS_REGISTER -> "status-read"
      [] OTHER -> "other"

\* the commands among the operations ops, by name and in order
StepsOf(ops) ==
    LET irs == SelectSeq(ops, LAMBDA o : o.k = "ir")
    IN  [i \in 1..Len(irs) |-> StepName(irs[i].v)]

\* pollFlag(mask, value) as a step
PollName(mask, value) ==
    CASE mask = STATUS_SYSTEM_EDIT_MODE /\ value = mask -> "poll edit-mode set"
      [] mask = STATUS_SYSTEM_EDIT_MODE /\ value = 0 -> "poll edit-mode clear"
      [] mask = STATUS_MEMORY_ERASE /\ value = mask -> "poll memory-erase set"
      [] OTHER -> "poll other"

\* the steps are logged while eraseSRAM runs
Log(steps) == es' = IF es.on THEN [es EXCEPT !.steps = @ \o steps] ELSE es

PollIdle == [mask |-> 0, value |-> 0, timeout |-> 0, reads |-> 0, hit |-> 0, result |-> FALSE]

PollArgs(mask, value) == [PollIdle EXCEPT !.mask = mask, !.value = value]

\* a faulty variant: the cap is tested one iteration late
PollTimedOut_Late(timeout) == timeout = PollBudget + 1

\* line 443
PollTimedOut(timeout) == timeout = PollBudget

\* line 448: the loop goes on while this is false
PollSatisfied(status, mask, value) == BitAnd(status, mask) = value

\* one iteration of the do ... while; sat is what the status just read
\* makes of the loop condition
PollIter ==
    /\ pc = "pollFlag"
    /\ \E sat \in {PollSatisfied(status, poll.mask, poll.value) : status \in StatusValues} :
          LET n == poll.reads + 1
              p == [poll EXCEPT !.reads = n,
                                !.hit = IF @ = 0 /\ sat THEN n ELSE @]
          IN  IF PollTimedOut(poll.timeout)
              THEN poll' = [p EXCEPT !.result = FALSE] /\ Jump("pollFlag_ret")
              ELSE IF ~sat
              THEN poll' = [p EXCEPT !.timeout = @ + 1] /\ Jump("pollFlag")
              ELSE poll' = [p EXCEPT !.timeout = @ + 1, !.result = TRUE]
                   /\ Jump("pollFlag_ret")
    /\ Emit(readStatusReg, "pollFlag")
    /\ UNCHANGED <<argVars, spi, sessVars, ef, es, wf, wf_sent, ws, ws_chunks, ps, crc, stepFailed>>

PollReturn ==
    /\ pc = "pollFlag_ret"
    /\ Return(poll.result)
    /\ poll' = PollIdle
    /\ es' = IF es.on
             THEN [es EXCEPT !.steps = Append(@, PollName(poll.mask, poll.value)),
                             !.polls = Append(@, poll.result)]
             ELSE es
    /\ IF poll.result THEN UNCHANGED stepFailed ELSE Fail("poll timeout")
    /\ UNCHANGED <<argVars, spi, sessVars, ef, wf, wf_sent, ws, ws_chunks, ps, crc, mon>>

(***************************************************************************)
(* Gowin::enableCfg, Gowin::disableCfg (lines 390-401)                     *)
(***************************************************************************)
EnableCfg ==
    /\ pc = "enableCfg"
    /\ Emit(send_command(CONFIG_ENABLE), "enableCfg")
    /\ Log(StepsOf(send_command(CONFIG_ENABLE)))
    /\ poll' = PollArgs(STATUS_SYSTEM_EDIT_MODE, STATUS_SYSTEM_EDIT_MODE)
    /\ Call("pollFlag", "enableCfg_ret")
    /\ UNCHANGED <<argVars, spi, sessVars, ef, wf, wf_sent, ws, ws_chunks, ps, crc, stepFailed>>

EnableCfgReturn ==
    /\ pc = "enableCfg_ret"
    /\ mon' = IF ret THEN [mon EXCEPT !.gate = "polled"] ELSE mon
    /\ Return(ret)
    /\ UNCHANGED <<argVars, spi, sessVars, locVars, stepFailed>>

DisableCfg ==
    /\ pc = "disableCfg"
    /\ Emit(send_command(CONFIG_DISABLE) \o send_command(NOOP), "disableCfg")
    /\ Log(StepsOf(send_command(CONFIG_DISABLE) \o send_command(NOOP)))
    /\ poll' = PollArgs(STATUS_SYSTEM_EDIT_MODE, 0)
    /\ Call("pollFlag", "disableCfg_ret")
    /\ UNCHANGED <<argVars, spi, sessVars, ef, wf, wf_sent, ws, ws_chunks, ps, crc, stepFailed>>

DisableCfgReturn ==
    /\ pc = "disableCfg_ret"
    /\ Return(ret)
    /\ UNCHANGED <<argVars, spi, sessVars, locVars, obsVars>>


(***************************************************************************)
(* Gowin::eraseSRAM (lines 666-708)                                        *)
(***************************************************************************)
DoneFinal(status) == BitAnd(status, STATUS_DONE_FINAL) # 0

\* a faulty variant: the result of enableCfg is not looked at
EnableFailed_Ignored(r) == FALSE

\* lines 672, 605: if (!enableCfg())
EnableFailed(r) == ~r

\* the steps of displayReadReg(..., readStatusReg()) under if (_verbose)
Displayed == IF verbose THEN <<"display">> ELSE <<>>

\* a faulty variant: the result of the poll for memory-erase is not looked at
EraseTimedOut_Ignored(r) == FALSE

\* line 685: the else branch
EraseTimedOut(r) == ~r

\* a return statement of eraseSRAM
EsReturn(e, v) ==
    /\ es' = [e EXCEPT !.result = v]
    /\ Jump("eraseSRAM_ret")

EraseSram ==
    /\ pc = "eraseSRAM"
    /\ Emit(VerboseRead, "eraseSRAM")
    /\ es' = [EsIdle EXCEPT !.on = TRUE, !.steps = Displayed]
    /\ Call("enableCfg", "eraseSRAM_1")
    /\ UNCHANGED <<argVars, spi, sessVars, poll, ef, wf, wf_sent, ws, ws_chunks, ps, crc, stepFailed>>

\* lines 672-685: after enableCfg
EraseSramErase ==
    /\ pc = "eraseSRAM_1"
    /\ IF EnableFailed(ret)
       THEN /\ mon' = mon
            /\ EsReturn(es, FALSE)
            /\ poll' = poll
       ELSE /\ Emit(send_command(ERASE_SRAM) \o send_command(NOOP), "eraseSRAM")
            /\ Log(StepsOf(send_command(ERASE_SRAM) \o send_command(NOOP)))
            /\ poll' = PollArgs(STATUS_MEMORY_ERASE, STATUS_MEMORY_ERASE)
            /\ Call("pollFlag", "eraseSRAM_2")
    /\ UNCHANGED <<argVars, spi, sessVars, ef, wf, wf_sent, ws, ws_chunks, ps, crc, stepFailed>>

\* lines 685-695: after the poll for memory-erase
EraseSramDone ==
    /\ pc = "eraseSRAM_2"
    /\ IF EraseTimedOut(ret)
       THEN /\ mon' = mon
            /\ EsReturn(es, FALSE)
       ELSE /\ Emit(VerboseRead \o send_command(XFER_DONE) \o send_command(NOOP),
                    "eraseSRAM")
            /\ Log(Displayed \o StepsOf(send_command(XFER_DONE) \o send_command(NOOP)))
            /\ Call("disableCfg", "eraseSRAM_3")
    /\ UNCHANGED <<argVars, spi, sessVars, poll, ef, wf, wf_sent, ws, ws_chunks, ps, crc, stepFailed>>

\* lines 695-707: after disableCfg
EraseSramCheck ==
    /\ pc = "eraseSRAM_3"
    /\ IF ~ret
       THEN /\ mon' = mon
            /\ EsReturn(es, FALSE)
            /\ UNCHANGED stepFailed
       ELSE \E done \in {DoneFinal(status) : status \in StatusValues} :
            /\ Emit(VerboseRead \o readStatusReg, "eraseSRAM")
            /\ EsReturn([es EXCEPT !.steps = @ \o Displayed \o StepsOf(readStatusReg),
                                   !.finalRead = IF done THEN "set" ELSE "clear"],
                        ~done)
            /\ IF done THEN Fail("eraseSRAM done-final")
               ELSE UNCHANGED stepFailed
    /\ UNCHANGED <<argVars, spi, sessVars, poll, ef, wf, wf_sent, ws, ws_chunks, ps, crc>>

\* control goes back to the caller
EraseSramReturn ==
    /\ pc = "eraseSRAM_ret"
    /\ mon' = MonReturn(mon, "eraseSRAM", es.result)
    /\ Return(es.result)
    /\ es' = EsIdle
    /\ UNCHANGED <<argVars, spi, sessVars, poll, ef, wf, wf_sent, ws, ws_chunks, ps, crc, stepFailed>>

(***************************************************************************)
(* Gowin::eraseFLASH (lines 591-653)                                       *)
(***************************************************************************)
\* i, j: the two loop counters; attempts: EFLASH_ERASE commands sent;
\* pulses: erase pulses sent in the current attempt; loopRead: done-final in
\* the status read that ended the latest attempt, finalRead: in the read
\* after the loop ("none": no such read yet); result: the value returned
EfIdle ==
    [i |-> 0, j |-> 0, attempts |-> 0, pulses |-> 0, loopRead |-> "none",
     finalRead |-> "none", result |-> FALSE]

\* line 602
EraseAttempts == 100

\* a faulty variant: one attempt too many
EraseLoopCond_OffByOne(i) == i <= EraseAttempts

EraseLoopCond(i) == i < EraseAttempts

\* a faulty variant: the GW1N1 count is used for no family
NbIter_Single(is_gw1n1) == 1

\* line 616
NbIter(is_gw1n1) == IF is_gw1n1 THEN 65 ELSE 1

\* line 640: leave the retry loop
EraseBreak(status) == ~DoneFinal(status)

\* a return statement of eraseFLASH
EfReturn(v) ==
    /\ ef' = [ef EXCEPT !.result = v]
    /\ Jump("eraseFLASH_ret")

EraseFlash ==
    /\ pc = "eraseFLASH"
    /\ \E vld \in {BitAnd(status, STATUS_GOWIN_VLD) # 0 : status \in StatusValues} :
          IF vld
          THEN Call("eraseSRAM", "eraseFLASH_1")
          ELSE Jump("eraseFLASH_loop")
    /\ Emit(readStatusReg, "eraseFLASH")
    /\ ef' = EfIdle
    /\ UNCHANGED <<argVars, spi, sessVars, poll, es, wf, wf_sent, ws, ws_chunks, ps, crc, stepFailed>>

\* lines 594-596: after eraseSRAM
EraseFlashAfterSram ==
    /\ pc = "eraseFLASH_1"
    /\ IF ~ret
       THEN EfReturn(FALSE)
       ELSE ef' = ef /\ Jump("eraseFLASH_loop")
    /\ UNCHANGED <<argVars, spi, sessVars, poll, es, wf, wf_sent, ws, ws_chunks, ps, crc, obsVars>>

\* line 602-605: the head of the retry loop
EraseFlashLoop ==
    /\ pc = "eraseFLASH_loop"
    /\ IF EraseLoopCond(ef.i)
       THEN Emit(VerboseRead, "eraseFLASH") /\ Call("enableCfg", "eraseFLASH_2")
       ELSE mon' = mon /\ Jump("eraseFLASH_final")
    /\ UNCHANGED <<argVars, spi, sessVars, locVars, stepFailed>>

\* lines 605-611: after enableCfg
EraseFlashCommand ==
    /\ pc = "eraseFLASH_2"
    /\ IF EnableFailed(ret)
       THEN /\ mon' = mon
            /\ EfReturn(FALSE)
       ELSE /\ Emit(send_command(EFLASH_ERASE) \o <<Op("tap", "RUN_TEST_IDLE")>>,
                    "eraseFLASH")
            /\ ef' = [ef EXCEPT !.j = 0, !.pulses = 0, !.attempts = @ + 1]
            /\ Jump("eraseFLASH_pulse")
    /\ UNCHANGED <<argVars, spi, sessVars, poll, es, wf, wf_sent, ws, ws_chunks, ps, crc, stepFailed>>

\* lines 617-622: one pass of the inner loop
EraseFlashPulse ==
    /\ pc = "eraseFLASH_pulse"
    /\ ef.j < NbIter(dev.is_gw1n1)
    /\ Emit(<<Op("tap", "SHIFT_DR"), Op("raw", 32), Op("tap", "RUN_TEST_IDLE")>>,
            "eraseFLASH")
    /\ ef' = [ef EXCEPT !.j = @ + 1, !.pulses = @ + 1]
    /\ Jump("eraseFLASH_pulse")
    /\ UNCHANGED <<argVars, spi, sessVars, poll, es, wf, wf_sent, ws, ws_chunks, ps, crc, stepFailed>>

\* lines 628-629: the inner loop is over
EraseFlashSettle ==
    /\ pc = "eraseFLASH_pulse"
    /\ ~(ef.j < NbIter(dev.is_gw1n1))
    /\ Emit(sendClkUs(150 * 1000), "eraseFLASH")
    /\ Call("disableCfg", "eraseFLASH_3")
    /\ UNCHANGED <<argVars, spi, sessVars, locVars, stepFailed>>

\* lines 629-642: after disableCfg
EraseFlashRead ==
    /\ pc = "eraseFLASH_3"
    /\ IF ~ret
       THEN /\ mon' = mon
            /\ EfReturn(FALSE)
       ELSE \E st \in {<<DoneFinal(status), EraseBreak(status)>> : status \in StatusValues} :
            /\ Emit(readStatusReg, "eraseFLASH")
            /\ IF st[2]
               THEN /\ ef' = [ef EXCEPT !.loopRead = IF st[1] THEN "set" ELSE "clear"]
                    /\ Jump("eraseFLASH_final")
               ELSE /\ ef' = [ef EXCEPT !.loopRead = IF st[1] THEN "set" ELSE "clear",
                                        !.i = @ + 1]
                    /\ Jump("eraseFLASH_loop")
    /\ UNCHANGED <<argVars, spi, sessVars, poll, es, wf, wf_sent, ws, ws_chunks, ps, crc, stepFailed>>

\* lines 644-652: the read after the loop decides
EraseFlashFinal ==
    /\ pc = "eraseFLASH_final"
    /\ \E done \in {DoneFinal(status) : status \in StatusValues} :
       /\ Emit(readStatusReg, "eraseFLASH")
       /\ ef' = [ef EXCEPT !.finalRead = IF done THEN "set" ELSE "clear",
                           !.result = ~done]
       /\ Jump("eraseFLASH_ret")
       /\ IF done THEN Fail("eraseFLASH done-final")
          ELSE UNCHANGED stepFailed
    /\ UNCHANGED <<argVars, spi, sessVars, poll, es, wf, wf_sent, ws, ws_chunks, ps, crc>>

\* control goes back to the caller
EraseFlashReturn ==
    /\ pc = "eraseFLASH_ret"
    /\ mon' = MonReturn(mon, "eraseFLASH", ef.result)
    /\ Return(ef.result)
    /\ ef' = EfIdle
    /\ UNCHANGED <<argVars, spi, sessVars, poll, es, wf, wf_sent, ws, ws_chunks, ps, crc, stepFailed>>


(***************************************************************************)
(* Gowin::writeFLASH (lines 462-527)                                       *)
(***************************************************************************)
\* line 468: the size of xpage
PageSize == 256

\* the image: byte i of the image of pattern seed
ImageByte(seed, i) == (seed + 7 * i + (i \div PageSize)) % 256

ImageSeeds == {0, 71}

\* the image lengths, in bits, the model hands to writeFLASH
FlashBitLens ==
    {n \in {8 * (p * PageSize + d) + r :
               p \in 0..MaxFullPages, d \in (-1)..MaxTail, r \in {0, 3}} : n >= 0}

\* xpage as declared at line 468, before anything is stored in it
Indeterminate == [i \in 0..(PageSize - 1) |-> -1]

WfIdle ==
    [page |-> 0, length |-> 0, seed |-> 0, off |-> 0, xpage |-> <<>>,
     result |-> FALSE]

WfArgs(page, length, seed) == [WfIdle EXCEPT !.page = page, !.length = length, !.seed = seed]

\* a faulty variant: the short page is not cleared
PageFill_NoMemset(xpage, seed, length, off) ==
    LET short == length - off < PageSize
        l == IF short THEN length - off ELSE PageSize
    IN  [i \in 0..(PageSize - 1) |->
            IF i < l THEN ImageByte(seed, off + i) ELSE xpage[i]]

\* lines 472-477: memset on a short page, then memcpy of l image bytes
PageFill(xpage, seed, length, off) ==
    LET short == length - off < PageSize
        l == IF short THEN length - off ELSE PageSize
        cleared == IF short THEN [i \in 0..(PageSize - 1) |-> 255] ELSE xpage
    IN  [i \in 0..(PageSize - 1) |->
            IF i < l THEN ImageByte(seed, off + i) ELSE cleared[i]]

\* a faulty variant: the address advances by one per page
PageAddr_PerPage(off, page) == off \div PageSize + page

\* line 478 (the sum stays far below 2^32 for the offsets of the model)
PageAddr(off, page) == off \div 4 + page

\* line 483: 'G', 'W', '1', 'N'
AutobootPat == <<71, 87, 49, 78>>

\* lines 479-485
PageStamp(xp, addr) ==
    IF addr # 0 THEN xp
    ELSE [i \in 0..(PageSize - 1) |-> IF i < 4 THEN AutobootPat[i + 1] ELSE xp[i]]

\* A 32-bit word is the tuple of its four bytes, least significant first
\* (the order of its bytes in the memory of the little-endian host and the
\* order in which shiftDR sends them).
\* line 495: memcpy of 4 bytes of xpage into an unsigned
LoadWord(xp, y) == <<xp[4 * y], xp[4 * y + 1], xp[4 * y + 2], xp[4 * y + 3]>>

\* lines 453-459: bits 0-7 go to bits 24-31, 8-15 to 16-23, 16-23 to 8-15
\* and 24-31 to 0-7
bswap_32(x) == <<x[4], x[3], x[2], x[1]>>

\* lines 494-497: the 64 words shifted for a page
PageWords(xp) == [y \in 1..(PageSize \div 4) |-> bswap_32(LoadWord(xp, y - 1))]

\* the JTAG operations of one page (lines 479-500); the 64 passes of the
\* inner loop, each a 32-bit shiftDR and a sendClkUs, are one "dr" and one
\* "clk" entry here
PageOps(addr, is_gw1n1) ==
    (IF addr # 0 THEN sendClkUs(16) ELSE <<>>)
    \o send_command(CONFIG_ENABLE) \o send_command(NOOP) \o send_command(EF_PROGRAM)
    \o <<Op("dr", "addr")>> \o sendClkUs(16)
    \o <<Op("dr", "words")>> \o sendClkUs(IF is_gw1n1 THEN 32 ELSE 16)
    \o sendClkUs(IF is_gw1n1 THEN 2400 ELSE 6)

\* whether the operations ops of a page wait (line 480) before the first
\* command of the page (line 487)
SettledFirst(ops) == ops # <<>> /\ ops[1].k = "clk"

WriteFlash ==
    /\ pc = "writeFLASH"
    /\ Emit(VerboseRead, "writeFLASH")
    /\ wf' = [wf EXCEPT !.length = @ \div 8, !.off = 0, !.xpage = Indeterminate]
    /\ wf_sent' = <<>>
    /\ Jump("writeFLASH_loop")
    /\ UNCHANGED <<argVars, spi, sessVars, poll, ef, es, ws, ws_chunks, ps, crc, stepFailed>>

\* lines 471-502: one page
WriteFlashPage ==
    /\ pc = "writeFLASH_loop"
    /\ wf.off < wf.length
    /\ LET addr == PageAddr(wf.off, wf.page)
           xp == PageStamp(PageFill(wf.xpage, wf.seed, wf.length, wf.off), addr)
           ops == PageOps(addr, dev.is_gw1n1)
       IN  /\ Emit(ops, "writeFLASH")
           /\ wf_sent' = Append(wf_sent,
                  [addr |-> addr, delay |-> SettledFirst(ops), words |-> PageWords(xp)])
           /\ wf' = [wf EXCEPT !.xpage = xp, !.off = @ + PageSize]
    /\ Jump("writeFLASH_loop")
    /\ UNCHANGED <<argVars, spi, sessVars, poll, ef, es, ws, ws_chunks, ps, crc, stepFailed>>

\* line 504: the loop is over
WriteFlashDisable ==
    /\ pc = "writeFLASH_loop"
    /\ ~(wf.off < wf.length)
    /\ Call("disableCfg", "writeFLASH_1")
    /\ UNCHANGED <<argVars, spi, sessVars, locVars, obsVars>>

\* lines 504-526: after disableCfg
WriteFlashFinish ==
    /\ pc = "writeFLASH_1"
    /\ IF ~ret
       THEN /\ wf' = [wf EXCEPT !.result = FALSE]
            /\ UNCHANGED obsVars
       ELSE \E done \in {DoneFinal(status) : status \in StatusValues} :
            /\ Emit(VerboseRead \o reset \o VerboseRead \o VerboseRead \o readStatusReg,
                    "writeFLASH")
            /\ wf' = [wf EXCEPT !.result = done]
            /\ IF done THEN UNCHANGED stepFailed
               ELSE Fail("writeFLASH done-final")
    /\ Jump("writeFLASH_ret")
    /\ UNCHANGED <<argVars, spi, sessVars, poll, ef, es, wf_sent, ws, ws_chunks, ps, crc>>

\* control goes back to the caller
WriteFlashReturn ==
    /\ pc = "writeFLASH_ret"
    /\ mon' = MonReturn(mon, "writeFLASH", wf.result)
    /\ Return(wf.result)
    /\ wf' = WfIdle
    /\ wf_sent' = <<>>
    /\ UNCHANGED <<argVars, spi, sessVars, poll, ef, es, ws, ws_chunks, ps, crc, stepFailed>>

(***************************************************************************)
(* Gowin::writeSRAM (lines 536-585)                                        *)
(***************************************************************************)
\* line 551
pstep == 524288

\* the image lengths, in bits, the model hands to writeSRAM
SramBitLens == {0, 8, pstep - 8, pstep, pstep + 8, 2 * pstep}

\* cmds: the commands writeSRAM sent, in order; finalRead: done-final in the
\* status read at line 578 ("none": not read yet)
WsIdle ==
    [length |-> 0, remains |-> 0, result |-> FALSE, cmds |-> <<>>,
     finalRead |-> "none"]

\* the commands among the operations ops, in order
CmdSeq(ops) ==
    LET irs == SelectSeq(ops, LAMBDA o : o.k = "ir")
    IN  [i \in 1..Len(irs) |-> irs[i].v]

\* a faulty variant: the test of line 578 is inverted
SramLoaded_Inverted(status) == ~DoneFinal(status)

\* line 578
SramLoaded(status) == DoneFinal(status)

\* lines 553-560: the size of the next chunk and the TAP state after it
ChunkOf(remains) ==
    IF remains < pstep
    THEN [bits |-> remains, next |-> "RUN_TEST_IDLE"]
    ELSE [bits |-> pstep, next |-> "SHIFT_DR"]

WriteSram ==
    /\ pc = "writeSRAM"
    /\ LET ops == VerboseRead \o send_command(CONFIG_ENABLE) \o send_command(INIT_ADDR)
                  \o send_command(XFER_WRITE)
       IN  /\ Emit(ops, "writeSRAM")
           /\ ws' = [ws EXCEPT !.remains = ws.length, !.cmds = CmdSeq(ops)]
    /\ ws_chunks' = <<>>
    /\ Jump("writeSRAM_loop")
    /\ UNCHANGED <<argVars, spi, sessVars, poll, ef, es, wf, wf_sent, crc, ps, stepFailed>>

\* lines 552-565: one chunk
WriteSramChunk ==
    /\ pc = "writeSRAM_loop"
    /\ ws.remains # 0
    /\ Emit(<<Op("dr", "data")>>, "writeSRAM")
    /\ ws_chunks' = Append(ws_chunks, ChunkOf(ws.remains))
    /\ ws' = [ws EXCEPT !.remains = @ - ChunkOf(ws.remains).bits]
    /\ Jump("writeSRAM_loop")
    /\ UNCHANGED <<argVars, spi, sessVars, poll, ef, es, wf, wf_sent, crc, ps, stepFailed>>

\* lines 566-584: the loop is over
WriteSramFinish ==
    /\ pc = "writeSRAM_loop"
    /\ ws.remains = 0
    /\ \E st \in {<<DoneFinal(status), SramLoaded(status)>> : status \in StatusValues} :
       LET ops == send_command(10) \o <<Op("dr", "checksum")>> \o send_command(8)
                  \o send_command(CONFIG_DISABLE) \o send_command(NOOP)
                  \o VerboseRead \o readStatusReg
       IN  /\ Emit(ops, "writeSRAM")
           /\ ws' = [ws EXCEPT !.result = st[2], !.cmds = @ \o CmdSeq(ops),
                               !.finalRead = IF st[1] THEN "set" ELSE "clear"]
           /\ IF st[2] THEN UNCHANGED stepFailed
              ELSE Fail("writeSRAM done-final")
    /\ Jump("writeSRAM_ret")
    /\ UNCHANGED <<argVars, spi, sessVars, poll, ef, es, wf, wf_sent, ws_chunks, ps, crc>>

\* control goes back to the caller
WriteSramReturn ==
    /\ pc = "writeSRAM_ret"
    /\ mon' = MonReturn(mon, "writeSRAM", ws.result)
    /\ Return(ws.result)
    /\ ws' = WsIdle
    /\ ws_chunks' = <<>>
    /\ UNCHANGED <<argVars, spi, sessVars, poll, ef, es, wf, wf_sent, crc, ps, stepFailed>>

(***************************************************************************)
(* Gowin::checkCRC (lines 362-388)                                         *)
(***************************************************************************)
\* strtol(hdr, NULL, 16) of a string of hexadecimal digits, given as the
\* sequence of the digits' values
RECURSIVE HexValue(_)
HexValue(digits) ==
    IF digits = <<>> THEN 0
    ELSE 16 * HexValue(SubSeq(digits, 1, Len(digits) - 1)) + digits[Len(digits)]

\* what the user-code register may hold
UserCodes == {0, \h0000ABCD, \h1234ABCD, \h12341111}

\* FsParser::checksum()
Checksums == {\hABCD, \h2222}

\* getHeaderVal("checkSum"): the key is missing (it throws), or its digits
HeaderCheckSums ==
    {[present |-> FALSE, digits |-> <<>>], [present |-> TRUE, digits |-> <<>>],
     [present |-> TRUE, digits |-> <<1, 2, 3, 4, 10, 11, 12, 13>>],
     [present |-> TRUE, digits |-> <<1, 2, 3, 4, 1, 1, 1, 1>>]}

\* cmds: the commands checkCRC sent
CrcIdle ==
    [ran |-> FALSE, ucode |-> 0, checksum |-> 0, hdr |-> <<>>, ok |-> FALSE,
     cmds |-> {}]

\* a faulty variant: the user code is not cut to 16 bits
CrcSuccess_NoCut(ucode, checksum, hdr) ==
    \/ ucode = checksum
    \/ hdr.present /\ hdr.digits # <<>> /\ ucode = HexValue(hdr.digits)

\* the commands among the operations ops
CmdsOf(ops) == {ops[i].v : i \in {n \in 1..Len(ops) : ops[n].k = "ir"}}

\* lines 366-379
CrcSuccess(ucode, checksum, hdr) ==
    \/ BitAnd(65535, ucode) = checksum
    \/ hdr.present /\ hdr.digits # <<>> /\ ucode = HexValue(hdr.digits)

CheckCRC ==
    /\ pc = "checkCRC"
    /\ \E ucode \in UserCodes, checksum \in Checksums, hdr \in HeaderCheckSums :
       /\ crc' = [ran |-> TRUE, ucode |-> ucode, checksum |-> checksum,
                  hdr |-> hdr.digits, ok |-> CrcSuccess(ucode, checksum, hdr),
                  cmds |-> CmdsOf(readUserCode)]
       /\ IF CrcSuccess(ucode, checksum, hdr) THEN UNCHANGED stepFailed
          ELSE Fail("CRC mismatch")
    /\ Emit(readUserCode, "checkCRC")
    /\ Return(FALSE)
    /\ UNCHANGED <<argVars, spi, sessVars, poll, ef, es, wf, wf_sent, ws, ws_chunks, ps>>


(***************************************************************************)
(* Gowin::programFlash (lines 240-276)                                     *)
(***************************************************************************)
\* line 251
PreFlashOk(status) == BitAnd(status, STATUS_GOWIN_VLD + STATUS_POR) # 0

\* line 264: the page offset of the microcontroller firmware
McuPage == 896

ProgramFlash ==
    /\ pc = "programFlash"
    /\ \E ok \in {PreFlashOk(status) : status \in StatusValues} :
          IF ~ok
          THEN Fail("pre-flash status") /\ Return(FALSE)
          ELSE UNCHANGED stepFailed /\ Call("eraseFLASH", "programFlash_1")
    /\ Emit(send_command(CONFIG_DISABLE) \o send_command(0)
            \o <<Op("tap", "TEST_LOGIC_RESET")>> \o readStatusReg, "programFlash")
    /\ UNCHANGED <<argVars, spi, sessVars, locVars>>

\* lines 256-259: after eraseFLASH
ProgramFlashWrite ==
    /\ pc = "programFlash_1"
    /\ IF ~ret
       THEN Return(FALSE) /\ wf' = wf
       ELSE \E length \in FlashBitLens, seed \in ImageSeeds :
            /\ wf' = WfArgs(0, length, seed)
            /\ Call("writeFLASH", "programFlash_2")
    /\ UNCHANGED <<argVars, spi, sessVars, poll, ef, es, wf_sent, ws, ws_chunks, ps, crc, obsVars>>

\* lines 259-266: after writeFLASH of the image
ProgramFlashMcu ==
    /\ pc = "programFlash_2"
    /\ IF ~ret
       THEN Return(FALSE) /\ wf' = wf
       ELSE IF dev.mcufw
       THEN \E length \in FlashBitLens, seed \in ImageSeeds :
            /\ wf' = WfArgs(McuPage, length, seed)
            /\ Call("writeFLASH", "programFlash_3")
       ELSE Jump("programFlash_4") /\ wf' = wf
    /\ UNCHANGED <<argVars, spi, sessVars, poll, ef, es, wf_sent, ws, ws_chunks, ps, crc, obsVars>>

\* lines 264-265: after writeFLASH of the firmware
ProgramFlashAfterMcu ==
    /\ pc = "programFlash_3"
    /\ IF ~ret THEN Return(FALSE) ELSE Jump("programFlash_4")
    /\ UNCHANGED <<argVars, spi, sessVars, locVars, obsVars>>

\* lines 271-272
ProgramFlashCrc ==
    /\ pc = "programFlash_4"
    /\ IF ~dev.skip_checksum
       THEN Call("checkCRC", "programFlash_5")
       ELSE Jump("programFlash_5")
    /\ UNCHANGED <<argVars, spi, sessVars, locVars, obsVars>>

\* lines 274-276
ProgramFlashEnd ==
    /\ pc = "programFlash_5"
    /\ Emit(VerboseRead, "programFlash")
    /\ Return(FALSE)
    /\ UNCHANGED <<argVars, spi, sessVars, locVars, stepFailed>>

(***************************************************************************)
(* Gowin::programSRAM (lines 317-341)                                      *)
(***************************************************************************)
\* pre: the operations programSRAM sent before it called eraseSRAM, by
\* name; calls: the functions it called and what they returned, in order
PsIdle == [pre |-> <<>>, calls |-> <<>>]

\* an operation by name
OpName(op) ==
    CASE op.k = "ir" -> StepName(op.v)
      [] op.k = "clk" -> "clk " \o ToString(op.v)
      [] op.k = "tap" -> op.v
      [] OTHER -> op.k

NamesOf(ops) == [i \in 1..Len(ops) |-> OpName(ops[i])]

\* lines 323-327: the work-around for a GW5A stuck in Bad Command
Gw5aWorkaround ==
    reset \o <<Op("tap", "RUN_TEST_IDLE"), Op("clk", 1000000)>>

\* a faulty variant: the checksum is compared on every family
SkipCrc_Never(d) == FALSE

\* line 337
SkipCrc(d) == d.skip_checksum

ProgramSram ==
    /\ pc = "programSRAM"
    /\ LET ops == VerboseRead \o (IF dev.is_gw5a THEN Gw5aWorkaround ELSE <<>>)
       IN  /\ Emit(ops, "programSRAM")
           /\ ps' = [pre |-> NamesOf(ops), calls |-> <<"eraseSRAM">>]
    /\ Call("eraseSRAM", "programSRAM_1")
    /\ UNCHANGED <<argVars, spi, sessVars, poll, ef, es, wf, wf_sent, ws, ws_chunks, crc,
                   stepFailed>>

\* lines 329-333: after eraseSRAM
ProgramSramWrite ==
    /\ pc = "programSRAM_1"
    /\ IF ~ret
       THEN /\ Return(FALSE)
            /\ ws' = ws
            /\ ps' = [ps EXCEPT !.calls = Append(@, "eraseSRAM false")]
       ELSE \E length \in SramBitLens :
            /\ ws' = [WsIdle EXCEPT !.length = length]
            /\ ps' = [ps EXCEPT !.calls = @ \o <<"eraseSRAM true", "writeSRAM">>]
            /\ Call("writeSRAM", "programSRAM_2")
    /\ UNCHANGED <<argVars, spi, sessVars, poll, ef, es, wf, wf_sent, ws_chunks, crc, obsVars>>

\* lines 333-338: after writeSRAM
ProgramSramCrc ==
    /\ pc = "programSRAM_2"
    /\ IF ~ret
       THEN /\ Return(FALSE)
            /\ ps' = [ps EXCEPT !.calls = Append(@, "writeSRAM false")]
       ELSE IF ~SkipCrc(dev)
       THEN /\ Call("checkCRC", "programSRAM_3")
            /\ ps' = [ps EXCEPT !.calls = @ \o <<"writeSRAM true", "checkCRC">>]
       ELSE /\ Jump("programSRAM_3")
            /\ ps' = [ps EXCEPT !.calls = Append(@, "writeSRAM true")]
    /\ UNCHANGED <<argVars, spi, sessVars, poll, ef, es, wf, wf_sent, ws, ws_chunks, crc,
                   obsVars>>

\* lines 339-341
ProgramSramEnd ==
    /\ pc = "programSRAM_3"
    /\ Emit(VerboseRead, "programSRAM")
    /\ Return(FALSE)
    /\ UNCHANGED <<argVars, spi, sessVars, locVars, stepFailed>>

(***************************************************************************)
(* Gowin::programExtFlash (lines 278-315)                                  *)
(***************************************************************************)
ProgramExtFlash ==
    /\ pc = "programExtFlash"
    /\ Call("enableCfg", "programExtFlash_1")
    /\ UNCHANGED <<argVars, spi, sessVars, locVars, obsVars>>

\* lines 282-285: after enableCfg
ProgramExtFlashErase ==
    /\ pc = "programExtFlash_1"
    /\ IF ~ret
       THEN /\ Throw("fail to enable configuration")
            /\ mon' = MonReturn(mon, "programExtFlash", FALSE)
       ELSE /\ Call("eraseSRAM", "programExtFlash_2")
            /\ mon' = mon
    /\ UNCHANGED <<argVars, spi, sessVars, locVars, stepFailed>>

\* lines 285-294: after eraseSRAM, whose result is not looked at
ProgramExtFlashBridge ==
    /\ pc = "programExtFlash_2"
    /\ IF ~dev.is_gw2a
       THEN /\ Emit(send_command(XFER_DONE) \o send_command(NOOP) \o send_command(61),
                    "programExtFlash")
            /\ Jump("programExtFlash_4")
       ELSE /\ Emit(send_command(XFER_DONE) \o send_command(NOOP), "programExtFlash")
            /\ Call("disableCfg", "programExtFlash_3")
    /\ UNCHANGED <<argVars, spi, sessVars, locVars, stepFailed>>

\* lines 292-293: after disableCfg, whose result is not looked at
ProgramExtFlashNoop ==
    /\ pc = "programExtFlash_3"
    /\ Emit(send_command(NOOP), "programExtFlash")
    /\ Jump("programExtFlash_4")
    /\ UNCHANGED <<argVars, spi, sessVars, locVars, stepFailed>>

\* lines 296-312: the external flash driver (SPIFlash) resets, identifies,
\* erases, programs and, under _verify, verifies the chip through
\* spi_put / spi_wait; prog_ok and verify_ok are what it reports
ProgramExtFlashSpi ==
    /\ pc = "programExtFlash_4"
    /\ \E prog_ok, verify, verify_ok \in BOOLEAN :
          IF ~prog_ok
          THEN /\ Throw("write to flash failed")
               /\ EmitReturn(<<Op("spi", "erase_and_prog")>>, "programExtFlash", FALSE)
               /\ Fail("external flash write")
          ELSE IF verify /\ ~verify_ok
          THEN /\ Throw("flash verification failed")
               /\ EmitReturn(<<Op("spi", "erase_and_prog"), Op("spi", "verify")>>,
                             "programExtFlash", FALSE)
               /\ Fail("external flash verify")
          ELSE /\ Emit(<<Op("spi", "erase_and_prog")>>, "programExtFlash")
               /\ UNCHANGED stepFailed
               /\ IF ~dev.is_gw2a
                  THEN Call("disableCfg", "programExtFlash_5")
                  ELSE Jump("programExtFlash_6")
    /\ UNCHANGED <<argVars, spi, sessVars, locVars>>

\* lines 310-311: after disableCfg
ProgramExtFlashDisabled ==
    /\ pc = "programExtFlash_5"
    /\ IF ~ret
       THEN /\ Throw("fail to disable configuration")
            /\ mon' = MonReturn(mon, "programExtFlash", FALSE)
       ELSE /\ Jump("programExtFlash_6")
            /\ mon' = mon
    /\ UNCHANGED <<argVars, spi, sessVars, locVars, stepFailed>>

\* line 314
ProgramExtFlashEnd ==
    /\ pc = "programExtFlash_6"
    /\ EmitReturn(reset, "programExtFlash", TRUE)
    /\ Return(FALSE)
    /\ UNCHANGED <<argVars, spi, sessVars, locVars, stepFailed>>

(***************************************************************************)
(* Gowin::spi_put, Gowin::spi_wait (lines 710-883)                         *)
(***************************************************************************)
\* the errno spi_wait negates at line 879 (<errno.h>)
ETIME == 62

\* bit n of x, bit 0 the least significant
Bit(x, n) == (x \div (2 ^ n)) % 2

\* FsParser::reverseByte
ReverseByte(x) ==
    Bit(x, 0) * 128 + Bit(x, 1) * 64 + Bit(x, 2) * 32 + Bit(x, 3) * 16
    + Bit(x, 4) * 8 + Bit(x, 5) * 4 + Bit(x, 6) * 2 + Bit(x, 7)

\* t &= ~m on a uint8_t
ClearBits(t, m) == BitAnd(t, 255 - m)

\* got: the bytes the flash sampled on its data-in pin; resp: the bytes it
\* presented on its data-out pin; edges: the rising clock edges it saw.
\* last: the last vector spi_gowin_write shifted (-1: none); vectors: how
\* many it shifted; reads: the response bytes spi_wait read; hit: the first
\* read that satisfied (tmp & mask) == cond (0: none); size: the length
\* spi_put was called with, which sizes jtx and jrx; acc: the indexes at
\* which the assisted path read tx, wrote rx and accessed jtx and jrx
SpiIdle ==
    [fn |-> "none", cmd |-> 0, mask |-> 0, cond |-> 0, timeout |-> 0,
     tx |-> <<>>, tx_null |-> FALSE, rx_wanted |-> FALSE, len |-> 0,
     l |-> 0, t |-> 0, rx |-> <<>>, tmp |-> 0, count |-> 0, reads |-> 0,
     hit |-> 0, vectors |-> 0, last |-> -1, result |-> 0,
     got |-> <<>>, resp |-> <<>>, edges |-> 0,
     size |-> 0, acc |-> [tx |-> {}, rx |-> {}, jtx |-> {}, jrx |-> {}]]

\* the bytes the flash may answer with
RespBytes == {0, 1, 2, 128, 255}

\* lines 710-713: spi_gowin_write, n times
SpiWriteOps(n) == [i \in 1..(2 * n) |-> IF i % 2 = 1 THEN Op("dr", "bscan") ELSE Op("clk", 6)]

\* lines 767, 830: CS, SCK and DI low
SpiSelect(d) == ClearBits(BitOr(d.spi_msk, d.spi_do), d.spi_cs)

\* lines 776-778, 834-836: the vector with clock low that presents one bit
SpiBitLow(d, bit) == BitOr(BitOr(d.spi_msk, d.spi_do), IF bit = 1 THEN d.spi_di ELSE 0)

\* a faulty variant: chip-select is not raised
SpiRelease_NoCs(t, d) == ClearBits(t, d.spi_sck)

\* lines 791-792, 868-869: set CS, unset SCK
SpiRelease(t, d) == BitOr(ClearBits(t, d.spi_sck), d.spi_cs)

\* a faulty variant: the least significant bit goes first
SpiBitMask_Lsb(b) == 2 ^ b

\* lines 773, 848: bm in pass b of the loop over the bits, bm = 0x80 >> b
SpiBitMask(b) == 2 ^ (7 - b)

\* lines 787-788, 853-854: the byte the 8 captured vectors r[0..7] give
RECURSIVE SpiAssemble(_, _, _)
SpiAssemble(r, d, b) ==
    IF b = 8 THEN 0
    ELSE (IF BitAnd(r[b], d.spi_do) # 0 THEN SpiBitMask(b) ELSE 0)
         + SpiAssemble(r, d, b + 1)

\* the vectors captured while the flash answers resp, MSB first; the pins
\* other than data-out read as noise
SpiCaptureNoisy(resp, d, noise) ==
    [b \in 0..7 |-> (IF Bit(resp, 7 - b) = 1 THEN d.spi_do ELSE 0)
                    + ClearBits(noise, d.spi_do)]

SpiCapture(resp, d) == SpiCaptureNoisy(resp, d, 0)

\* lines 775-781: the 16 vectors that send one byte (0 when tx is NULL)
ByteVectors(d, byte) ==
    [i \in 1..16 |->
        LET b == (i - 1) \div 2
            low == SpiBitLow(d, IF BitAnd(byte, SpiBitMask(b)) # 0 THEN 1 ELSE 0)
        IN  IF i % 2 = 1 THEN low ELSE BitOr(low, d.spi_sck)]

\* the flash: the data-in bits it samples, one at each vector that raises
\* the clock while chip-select is low; prev is the vector driven before
RespSample(prev, vecs, d) ==
    LET before(i) == IF i = 1 THEN prev ELSE vecs[i - 1]
        rising == {i \in 1..Len(vecs) :
                      /\ BitAnd(vecs[i], d.spi_sck) # 0
                      /\ BitAnd(before(i), d.spi_sck) = 0
                      /\ BitAnd(vecs[i], d.spi_cs) = 0}
        at == SelectSeq([i \in 1..Len(vecs) |-> i], LAMBDA i : i \in rising)
    IN  [k \in 1..Len(at) |-> IF BitAnd(vecs[at[k]], d.spi_di) # 0 THEN 1 ELSE 0]

\* the flash: the value of the bits it sampled, the first the most
\* significant
RespValue(bits) ==
    LET P[i \in 0..Len(bits)] == IF i = 0 THEN 0 ELSE P[i - 1] * 2 + bits[i]
    IN  P[Len(bits)]

\* lines 745-764: the shift-register-assisted transfer
\* lines 748-749: len once the response byte is counted in
AssistedLen(len, rx_wanted) == IF rx_wanted THEN len + 1 ELSE len

\* the indexes the assisted path touches, len being the incremented length:
\* the loop of lines 751-752 reads tx[i] and writes jtx[i] for i < len,
\* shiftDR (line 758) reads 8 * len bits of jtx and, with rx, stores as many
\* into jrx, and the loop of lines 760-763 writes rx[i] from jrx[i] and
\* jrx[i + 1] for i < len
AssistedAccess(len, tx_null, rx_wanted) ==
    [tx  |-> IF tx_null THEN {} ELSE 0..(len - 1),
     rx  |-> IF rx_wanted THEN 0..(len - 1) ELSE {},
     jtx |-> 0..(len - 1),
     jrx |-> IF rx_wanted /\ len > 0 THEN 0..len ELSE {}]

SpiPutAssisted ==
    /\ pc = "spi_put"
    /\ dev.is_gw2a
    /\ LET len == AssistedLen(spi.len, spi.rx_wanted) IN
       \E jrx \in [0..len -> {0, 255}] :
          /\ spi' = [spi EXCEPT
                !.size = spi.len,
                !.len = len,
                !.acc = AssistedAccess(len, spi.tx_null, spi.rx_wanted),
                !.rx = IF spi.rx_wanted
                       THEN [i \in 1..len |->
                               BitOr(ReverseByte(jrx[i - 1] \div 2), jrx[i] % 2)]
                       ELSE @,
                !.result = 0]
          /\ Emit(send_command(22) \o <<Op("tap", "EXIT2_DR"), Op("dr", "spi")>>,
                  "spi_put")
    /\ Jump("spi_ret")
    /\ UNCHANGED <<argVars, sessVars, locVars, stepFailed>>

\* lines 766-769: the bit-bang transfer selects the flash
SpiPutSelect ==
    /\ pc = "spi_put"
    /\ ~dev.is_gw2a
    /\ spi' = [spi EXCEPT !.t = SpiSelect(dev), !.last = SpiSelect(dev),
                          !.vectors = @ + 1, !.l = 0]
    /\ Emit(SpiWriteOps(1), "spi_put")
    /\ Jump("spi_put_byte")
    /\ UNCHANGED <<argVars, sessVars, locVars, stepFailed>>

\* lines 772-789: one byte, bit by bit
SpiPutByte ==
    /\ pc = "spi_put_byte"
    /\ spi.l < spi.len
    /\ \E resp \in RespBytes, noise \in {0, 255} :
          LET vecs == ByteVectors(dev, IF spi.tx_null THEN 0 ELSE spi.tx[spi.l + 1])
              r == SpiCaptureNoisy(resp, dev, noise)
              bits == RespSample(spi.last, vecs, dev)
          IN  spi' = [spi EXCEPT
                !.t = vecs[16],
                !.last = vecs[16],
                !.vectors = @ + 16,
                !.rx = IF spi.rx_wanted THEN Append(@, SpiAssemble(r, dev, 0)) ELSE @,
                !.got = Append(@, RespValue(bits)),
                !.resp = Append(@, resp),
                !.edges = @ + Len(bits),
                !.l = @ + 1]
    /\ Emit(SpiWriteOps(16), "spi_put")
    /\ Jump("spi_put_byte")
    /\ UNCHANGED <<argVars, sessVars, locVars, stepFailed>>

\* lines 790-796: release the flash
SpiPutRelease ==
    /\ pc = "spi_put_byte"
    /\ ~(spi.l < spi.len)
    /\ spi' = [spi EXCEPT !.t = SpiRelease(spi.t, dev),
                          !.last = SpiRelease(spi.t, dev),
                          !.vectors = @ + 1, !.result = 0]
    /\ Emit(SpiWriteOps(1), "spi_put")
    /\ Jump("spi_ret")
    /\ UNCHANGED <<argVars, sessVars, locVars, stepFailed>>

\* lines 805-808 and 826-844: spi_wait up to its loop
SpiWaitStart ==
    /\ pc = "spi_wait"
    /\ IF dev.is_gw2a
       THEN /\ spi' = [spi EXCEPT !.tx = <<ReverseByte(spi.cmd)>>, !.count = 0]
            /\ mon' = mon
       ELSE /\ spi' = [spi EXCEPT
                  !.t = BitOr(dev.spi_msk, dev.spi_do),
                  !.last = BitOr(SpiBitLow(dev, Bit(spi.cmd, 0)), dev.spi_sck),
                  !.vectors = @ + 17, !.count = 0]
            /\ Emit(SpiWriteOps(17), "spi_wait")
    /\ Jump("spi_wait_read")
    /\ UNCHANGED <<argVars, sessVars, locVars, stepFailed>>

\* lines 818-819, 859-860: count++; if (count == timeout) break
SpiWaitTimedOut(count, timeout) == count = timeout

\* line 825, 864: the loop goes on while this is false
SpiWaitSatisfied(tmp, mask, cond) == BitAnd(tmp, mask) = cond

\* the locals after one pass of the loop has read tmp
SpiWaitCount(tmp) ==
    [spi EXCEPT !.tmp = tmp, !.count = @ + 1, !.reads = @ + 1,
                !.hit = IF @ = 0 /\ SpiWaitSatisfied(tmp, spi.mask, spi.cond)
                        THEN spi.reads + 1 ELSE @]

\* where one pass of the loop leaves the program
SpiWaitNext(tmp) ==
    IF SpiWaitTimedOut(spi.count + 1, spi.timeout) THEN "spi_wait_end"
    ELSE IF ~SpiWaitSatisfied(tmp, spi.mask, spi.cond) THEN "spi_wait_read"
    ELSE "spi_wait_end"

\* lines 810-825: one pass of the assisted loop
SpiWaitReadAssisted ==
    /\ pc = "spi_wait_read"
    /\ dev.is_gw2a
    /\ spi.reads < MaxSpiReads
    /\ \E rx1 \in RespBytes, rx2 \in {0, 1} :
          LET tmp == BitOr(ReverseByte(rx1 \div 2), rx2 % 2) IN
          /\ spi' = SpiWaitCount(tmp)
          /\ Jump(SpiWaitNext(tmp))
    /\ Emit(send_command(22) \o <<Op("tap", "EXIT2_DR"), Op("dr", "spi")>>, "spi_wait")
    /\ UNCHANGED <<argVars, sessVars, locVars, stepFailed>>

\* lines 846-864: one pass of the bit-bang loop
SpiWaitReadLegacy ==
    /\ pc = "spi_wait_read"
    /\ ~dev.is_gw2a
    /\ spi.reads < MaxSpiReads
    /\ \E resp \in RespBytes :
          LET tmp == SpiAssemble(SpiCapture(resp, dev), dev, 0)
              t == BitOr(ClearBits(spi.t, dev.spi_sck), dev.spi_sck)
          IN  /\ spi' = [SpiWaitCount(tmp) EXCEPT !.t = t, !.last = t,
                                                  !.vectors = @ + 16]
              /\ Jump(SpiWaitNext(tmp))
    /\ Emit(SpiWriteOps(16), "spi_wait")
    /\ UNCHANGED <<argVars, sessVars, locVars, stepFailed>>

\* lines 866-882: after the loop
SpiWaitEnd ==
    /\ pc = "spi_wait_end"
    /\ LET res == IF spi.count = spi.timeout THEN -ETIME ELSE 0 IN
       IF dev.is_gw2a
       THEN /\ spi' = [spi EXCEPT !.result = res]
            /\ mon' = mon
       ELSE /\ spi' = [spi EXCEPT !.t = SpiRelease(spi.t, dev),
                                  !.last = SpiRelease(spi.t, dev),
                                  !.vectors = @ + 1, !.result = res]
            /\ Emit(SpiWriteOps(1), "spi_wait")
    /\ Jump("spi_ret")
    /\ UNCHANGED <<argVars, sessVars, locVars, stepFailed>>

\* control goes back to the caller
SpiReturn ==
    /\ pc = "spi_ret"
    /\ Return(spi.result = 0)
    /\ spi' = SpiIdle
    /\ UNCHANGED <<argVars, sessVars, locVars, obsVars>>

(***************************************************************************)
(* The session: construction, then one call of program()                   *)
(***************************************************************************)
Init ==
    /\ idcode \in Idcodes
    /\ file_ext \in {"", "fs", "bin"}
    /\ prg_type \in {"WR_FLASH", "WR_SRAM"}
    /\ external_flash \in BOOLEAN
    /\ mcufw \in BOOLEAN
    /\ verbose \in BOOLEAN
    /\ dev = DevNew
    /\ fs_idcode = 0
    /\ path = "none"
    /\ pc = "new" /\ stack = <<>> /\ ret = FALSE /\ outcome = "none" /\ err = ""
    /\ poll = PollIdle /\ ef = EfIdle /\ wf = WfIdle /\ wf_sent = <<>>
    /\ ws = WsIdle /\ ws_chunks = <<>> /\ crc = CrcIdle /\ es = EsIdle
    /\ ps = PsIdle
    /\ spi = SpiIdle
    /\ mon = MonInit /\ stepFailed = {}

NextPoll == PollIter \/ PollReturn

NextCfg == EnableCfg \/ EnableCfgReturn \/ DisableCfg \/ DisableCfgReturn

NextEraseSram ==
    EraseSram \/ EraseSramErase \/ EraseSramDone \/ EraseSramCheck \/ EraseSramReturn

NextEraseFlash ==
    \/ EraseFlash \/ EraseFlashAfterSram \/ EraseFlashLoop \/ EraseFlashCommand
    \/ EraseFlashPulse \/ EraseFlashSettle \/ EraseFlashRead \/ EraseFlashFinal
    \/ EraseFlashReturn

NextWriteFlash ==
    \/ WriteFlash \/ WriteFlashPage \/ WriteFlashDisable \/ WriteFlashFinish
    \/ WriteFlashReturn

NextWriteSram == WriteSram \/ WriteSramChunk \/ WriteSramFinish \/ WriteSramReturn

NextProgram ==
    \/ Construct \/ Program \/ ProgramReturn
    \/ ProgramFlash \/ ProgramFlashWrite \/ ProgramFlashMcu \/ ProgramFlashAfterMcu
    \/ ProgramFlashCrc \/ ProgramFlashEnd
    \/ ProgramSram \/ ProgramSramWrite \/ ProgramSramCrc \/ ProgramSramEnd
    \/ ProgramExtFlash \/ ProgramExtFlashErase \/ ProgramExtFlashBridge
    \/ ProgramExtFlashNoop \/ ProgramExtFlashSpi \/ ProgramExtFlashDisabled
    \/ ProgramExtFlashEnd
    \/ CheckCRC

Next ==
    \/ NextProgram \/ NextPoll \/ NextCfg \/ NextEraseSram \/ NextEraseFlash
    \/ NextWriteFlash \/ NextWriteSram

Spec == Init /\ [][Next]_vars


(***************************************************************************)
(* Parts of the session run on their own: a constructed session with the   *)
(* program at the entry of one function, called from "done"                *)
(***************************************************************************)
Entered(ids, entry) ==
    /\ idcode \in ids
    /\ file_ext = "fs"
    /\ prg_type = "WR_FLASH"
    /\ external_flash = FALSE
    /\ mcufw = FALSE
    /\ verbose \in BOOLEAN
    /\ dev = DevOf(FALSE)
    /\ fs_idcode = idcode
    /\ path = "none"
    /\ pc = entry /\ stack = <<"done">> /\ ret = FALSE /\ outcome = "none" /\ err = ""
    /\ ef = EfIdle /\ wf = WfIdle /\ wf_sent = <<>>
    /\ ws = WsIdle /\ ws_chunks = <<>> /\ crc = CrcIdle /\ es = EsIdle
    /\ ps = PsIdle
    /\ mon = MonInit /\ stepFailed = {}

\* pollFlag(mask, value) for masks and values over the flags polled
PollMasks ==
    {0, STATUS_MEMORY_ERASE, STATUS_SYSTEM_EDIT_MODE, STATUS_DONE_FINAL,
     STATUS_MEMORY_ERASE + STATUS_SYSTEM_EDIT_MODE}

InitPoll ==
    /\ Entered({GW1N1}, "pollFlag")
    /\ poll \in {PollArgs(m, v) : m \in PollMasks, v \in PollMasks}
    /\ spi = SpiIdle

\* the loop is sequential code: a read that can be made is made
SpecPoll == InitPoll /\ [][NextPoll]_vars /\ WF_vars(NextPoll)

\* eraseFLASH() on the families with an internal flash
InitEraseFlash ==
    /\ Entered({GW1N1, GW1N4, GW1NSR4C}, "eraseFLASH")
    /\ poll = PollIdle
    /\ spi = SpiIdle

NextEraseFlashRun == NextEraseFlash \/ NextEraseSram \/ NextCfg \/ NextPoll

SpecEraseFlash ==
    InitEraseFlash /\ [][NextEraseFlashRun]_vars /\ WF_vars(NextEraseFlashRun)

\* the bytes spi_put is handed
TxByte(seed, i) == (seed + 90 * i) % 256

\* spi_put(tx, rx, len) on the legacy mapping, the GW1NSR-4C mapping and the
\* assisted path
SpiPutArgs ==
    {[SpiIdle EXCEPT !.fn = "spi_put", !.len = n, !.tx_null = tn,
                     !.tx = IF tn THEN <<>> ELSE [i \in 1..n |-> TxByte(seed, i)],
                     !.rx_wanted = rw] :
        n \in 0..MaxSpiLen, tn \in BOOLEAN, seed \in {0, 165}, rw \in BOOLEAN}

\* spi_wait(cmd, mask, cond, timeout, verbose)
SpiWaitArgs ==
    {[SpiIdle EXCEPT !.fn = "spi_wait", !.cmd = c, !.mask = m, !.cond = v,
                     !.timeout = to] :
        c \in {5, 112}, m \in {1, 3, 128}, v \in {0, 1, 128}, to \in 0..MaxSpiTimeout}

InitSpi ==
    /\ poll = PollIdle
    /\ \/ Entered({GW1N4, GW1NSR4C, GW2A18}, "spi_put") /\ spi \in SpiPutArgs
       \/ Entered({GW1N4, GW1NSR4C, GW2A18}, "spi_wait") /\ spi \in SpiWaitArgs

NextSpiPut == SpiPutAssisted \/ SpiPutSelect \/ SpiPutByte \/ SpiPutRelease

NextSpiWait == SpiWaitStart \/ SpiWaitReadAssisted \/ SpiWaitReadLegacy \/ SpiWaitEnd

NextSpi == NextSpiPut \/ NextSpiWait \/ SpiReturn

SpecSpi == InitSpi /\ [][NextSpi]_vars

(***************************************************************************)
(* C1: pollFlag                                                            *)
(***************************************************************************)
\* While pollFlag loops no read has satisfied the condition and it has made
\* as many reads as it counted; when it returns it has made at most
\* PollBudget + 1 reads and it returns true exactly when one of the first
\* PollBudget reads satisfied (status & mask) == value.
C1_PollSafe ==
    /\ pc = "pollFlag" =>
          /\ poll.hit = 0
          /\ poll.reads = poll.timeout
          /\ poll.reads <= PollBudget
    /\ pc = "pollFlag_ret" =>
          /\ poll.reads <= PollBudget + 1
          /\ poll.result = (poll.hit # 0 /\ poll.hit <= PollBudget)
          /\ poll.result => poll.hit = poll.reads

\* C1: for every mask and value and every sequence of status reads,
\* pollFlag returns (it never loops for ever), true when a read among the
\* first PollBudget satisfied the condition and false otherwise.
C1_PollFlagTerminates == [](C1_PollSafe) /\ <>(pc = "done")

\* the read made when the budget is used up satisfies the condition, and
\* pollFlag still reports the timeout
C1_Witness ==
    pc = "pollFlag_ret" /\ ~poll.result /\ poll.hit = PollBudget + 1


SentByte(k, j) == wf_sent[k].words[j \div 4 + 1][4 - (j % 4)]

\* the pages an image of wf.length bytes needs
PagesNeeded == (wf.length + PageSize - 1) \div PageSize

PageCountOk ==
    /\ pc = "writeFLASH_loop" => Len(wf_sent) = wf.off \div PageSize
    /\ pc \in {"writeFLASH_1", "writeFLASH_ret"} \/ (pc # "writeFLASH" /\ stack # <<>> /\ "writeFLASH_1" \in {stack[i] : i \in 1..Len(stack)})
          => Len(wf_sent) = PagesNeeded

\* C3 as stated: ceil(L/256) pages; every byte beyond the image's end is
\* 0xFF; the first 4 bytes of the page at address 0 are 'GW1N'; every other
\* byte is the image's.
C3_Original ==
    /\ PageCountOk
    /\ \A k \in 1..Len(wf_sent) : \A j \in 0..(PageSize - 1) :
          LET g == (k - 1) * PageSize + j IN
          /\ g >= wf.length => SentByte(k, j) = 255
          /\ (wf_sent[k].addr = 0 /\ j < 4) => SentByte(k, j) = AutobootPat[j + 1]
          /\ (g < wf.length /\ ~(wf_sent[k].addr = 0 /\ j < 4))
                => SentByte(k, j) = ImageByte(wf.seed, g)

\* C3, amended: the signature also replaces padding: a byte beyond the
\* image's end is 0xFF unless it is one of the first 4 bytes of the page at
\* address 0.
C3_Pages ==
    /\ PageCountOk
    /\ \A k \in 1..Len(wf_sent) : \A j \in 0..(PageSize - 1) :
          LET g == (k - 1) * PageSize + j IN
          SentByte(k, j) =
             IF wf_sent[k].addr = 0 /\ j < 4 THEN AutobootPat[j + 1]
             ELSE IF g < wf.length THEN ImageByte(wf.seed, g)
             ELSE 255

\* three pages were sent from address 0, the last one short
C3_Witness ==
    /\ pc = "writeFLASH_ret" /\ Len(wf_sent) = 3 /\ wf.page = 0
    /\ wf.length % PageSize = 1 /\ wf.seed = 71

(***************************************************************************)
(* C4: the idcode an fs image declares                                     *)
(***************************************************************************)
CtorErrors ==
    {"incompatible file format", "can't open file", "can't parse file",
     "idcode mismatch", "mcufw only on GW1NSR-4C"}

\* the constructor has run and has thrown nothing
Constructed == pc # "new" /\ ~(outcome = "threw" /\ err \in CtorErrors)

\* the constructor has read the idcode an fs image declares
Declared == pc # "new" /\ file_ext = "fs" /\ fs_idcode # 0

\* C4 as stated: a declared idcode different from the target's makes the
\* construction fail with the mismatch error before any JTAG operation; an
\* equal one lets it succeed.
C4_Original ==
    Declared =>
       IF fs_idcode # idcode
       THEN outcome = "threw" /\ err = "idcode mismatch" /\ ~mon.touched
       ELSE Constructed

\* C4, amended: the comparison ignores the top 4 bits of the declared
\* idcode: the construction fails with the mismatch error, no JTAG operation
\* sent, exactly when (declared & 0x0fffffff) differs from the target's
\* idcode, and otherwise it succeeds unless a microcontroller firmware is
\* refused.
C4_IdcodeCheck ==
    Declared =>
       IF BitAnd(fs_idcode, 268435455) # idcode
       THEN outcome = "threw" /\ err = "idcode mismatch" /\ ~mon.touched
       ELSE Constructed \/ (mcufw /\ err \in {"mcufw only on GW1NSR-4C", "can't parse file"})

\* the constructor refused an image for its idcode
C4_Witness ==
    /\ Declared /\ outcome = "threw" /\ err = "idcode mismatch"
    /\ fs_idcode = 305419896 /\ idcode = GW1N1

(***************************************************************************)
(* C7: failures reach the caller of program()                              *)
(***************************************************************************)
\* C7: when a step of program() has failed, program() does not return
\* normally.
C7_Surfaced == outcome = "returned" => stepFailed = {}

(***************************************************************************)
(* C8: the retry loop of eraseFLASH                                        *)
(***************************************************************************)
C8_Safe ==
    /\ ef.attempts <= EraseAttempts
    /\ ef.loopRead = "clear" => pc \in {"eraseFLASH_final", "eraseFLASH_ret"}
    /\ pc = "eraseFLASH_final" => (ef.loopRead = "clear" \/ ef.attempts = EraseAttempts)
    /\ (pc = "eraseFLASH_ret" /\ ef.finalRead = "set") => ~ef.result
    /\ (pc = "eraseFLASH_ret" /\ ef.finalRead = "clear") => ef.result

\* C8: eraseFLASH makes at most 100 erase attempts, makes no further attempt
\* once the status read after an attempt shows done-final cleared, reports
\* failure when the read after the loop shows done-final set, and returns.
C8_EraseFlashBounded == [](C8_Safe) /\ <>(pc = "done")

\* all the attempts were used and the erase failed
C8_Witness ==
    /\ pc = "eraseFLASH_ret" /\ ef.attempts = EraseAttempts
    /\ ef.loopRead = "set" /\ ef.finalRead = "set" /\ ~ef.result

(***************************************************************************)
(* C9: the erase pulses of an attempt                                      *)
(***************************************************************************)
InStack(l) == \E n \in 1..Len(stack) : stack[n] = l

\* C9: the attempt that has sent all its pulses has sent 65 of them on
\* idcode 0x0900281B and 1 on any other, and the flag that decides is the
\* one set at construction.
C9_EraseCycles ==
    /\ Constructed => dev.is_gw1n1 = (idcode = GW1N1)
    /\ (pc = "eraseFLASH_3" \/ InStack("eraseFLASH_3"))
          => ef.pulses = IF idcode = GW1N1 THEN 65 ELSE 1
    /\ pc = "eraseFLASH_pulse" => ef.pulses <= IF idcode = GW1N1 THEN 65 ELSE 1

\* the second attempt on a GW1N1 has sent its 65 pulses
C9_Witness ==
    pc = "eraseFLASH_3" /\ idcode = GW1N1 /\ ef.pulses = 65 /\ ef.attempts = 2

(***************************************************************************)
(* C10: flash programming on the families without internal flash           *)
(***************************************************************************)
\* program() has been entered with an image, for the flash
FlashRequested == Constructed /\ pc # "constructed" /\ dev.fs /\ prg_type = "WR_FLASH"

\* C10 as stated: internal-flash programming asked on a GW2A or GW5A idcode
\* is refused with an error before any JTAG operation.
C10_Original ==
    (FlashRequested /\ ~external_flash /\ (IsGw2a(idcode) \/ IsGw5a(idcode)))
       => (outcome = "threw" /\ ~mon.touched)

\* C10, amended: on the GW5A idcodes flash programming is refused with an
\* error before any JTAG operation; on the GW2A idcodes it is not refused
\* but carried out as external-flash programming.
C10_FlashRejected ==
    FlashRequested =>
       /\ IsGw5a(idcode) =>
             /\ outcome = "threw"
             /\ err = "write to flash on GW5A is not yet supported"
             /\ ~mon.touched
       /\ IsGw2a(idcode) => path = "programExtFlash"

\* the request was refused on a GW5A
C10_Witness ==
    /\ FlashRequested /\ IsGw5a(idcode) /\ ~external_flash /\ outcome = "threw"


(***************************************************************************)
(* C5: the reads spi_wait makes and what it returns                        *)
(***************************************************************************)
\* C5: spi_wait makes at most `timeout` reads of the response byte, returns
\* 0 exactly when one of them satisfied (response & mask) == cond, and a
\* negative code otherwise.
C5_WaitResult ==
    spi.fn = "spi_wait" =>
       /\ spi.reads <= spi.timeout
       /\ pc = "spi_ret" =>
             /\ (spi.result = 0) = (spi.hit # 0)
             /\ spi.result <= 0

(***************************************************************************)
(* C6: the bus when spi_put or spi_wait returns                            *)
(***************************************************************************)
\* the vector v has chip-select set and the clock clear
BusReleased(v) ==
    /\ v # -1
    /\ BitAnd(v, dev.spi_cs) = dev.spi_cs
    /\ BitAnd(v, dev.spi_sck) = 0

\* C6 as stated: when spi_put or spi_wait returns, on either path, the last
\* boundary-scan vector driven has the chip-select bit set and the clock bit
\* clear.
C6_Original == pc = "spi_ret" => BusReleased(spi.last)

\* C6, amended: on the legacy path the last boundary-scan vector driven has
\* the chip-select bit set and the clock bit clear, on success and on
\* timeout; on the assisted path spi_put and spi_wait drive no boundary-scan
\* vector at all.
C6_BusReleased ==
    pc = "spi_ret" =>
       IF dev.is_gw2a
       THEN spi.vectors = 0 /\ spi.last = -1
       ELSE BusReleased(spi.last)

\* spi_wait timed out on the GW1NSR-4C mapping after its reads
C6_Witness ==
    /\ pc = "spi_ret" /\ spi.fn = "spi_wait" /\ idcode = GW1NSR4C
    /\ spi.result = -ETIME /\ spi.reads = MaxSpiTimeout /\ BusReleased(spi.last)


(***************************************************************************)
(* C11: the microcontroller firmware                                       *)
(***************************************************************************)
\* a firmware on another idcode: the constructor has thrown, the firmware
\* error unless the image was refused first, and nothing was sent
C11_Refused ==
    (pc # "new" /\ mcufw /\ idcode # GW1NSR4C) =>
       /\ outcome = "threw" /\ err \in CtorErrors
       /\ ~mon.touched
       /\ (file_ext = "" \/ (file_ext = "fs" /\ fs_idcode # 0
                                /\ BitAnd(fs_idcode, 268435455) = idcode))
             => err = "mcufw only on GW1NSR-4C"

\* writeFLASH is entered at page 0x380 only from programFlash after the
\* writeFLASH of the image returned true, and then it always is
C11_SecondWrite ==
    /\ (pc' = "writeFLASH" /\ wf'.page = 896) =>
          (pc = "programFlash_2" /\ ret /\ dev.mcufw /\ idcode = GW1NSR4C)
    /\ (pc = "programFlash_2" /\ ret /\ dev.mcufw) =>
          (pc' = "writeFLASH" /\ wf'.page = 896 /\ Head(stack') = "programFlash_3")
    /\ (pc = "programFlash_2" /\ ~ret) => pc' = "program_ret"

\* C11: a firmware supplied with an idcode other than 0x0100981b makes the
\* construction fail with no JTAG operation sent; on GW1NSR-4C the firmware
\* is written by a second writeFLASH at page offset 0x380, only after the
\* writeFLASH of the image succeeded.
C11_McuFirmware == [](C11_Refused) /\ [][C11_SecondWrite]_vars

\* the second writeFLASH has been entered
C11_Witness ==
    /\ pc = "writeFLASH" /\ wf.page = 896 /\ wf.length > 0
    /\ idcode = GW1NSR4C /\ Head(stack) = "programFlash_3"


(***************************************************************************)
(* C12: checkCRC                                                           *)
(***************************************************************************)
\* the value of the hexadecimal digits d, most significant first
HexOf(d) == LET n == Len(d) IN
    IF n = 0 THEN 0
    ELSE LET P[i \in 0..n] == IF i = 0 THEN 0 ELSE P[i - 1] * 16 + d[i] IN P[n]

\* C12: checkCRC reports success exactly when the low 16 bits of the user
\* code equal the image's checksum or the header declares a non-empty
\* checksum whose value is the whole user code; otherwise it reports a
\* mismatch; it always returns normally and the only command it sends is the
\* read of the user code.
C12_CheckCrc ==
    crc.ran =>
       /\ crc.ok = (\/ crc.ucode % 65536 = crc.checksum
                    \/ crc.hdr # <<>> /\ HexOf(crc.hdr) = crc.ucode)
       /\ ("CRC mismatch" \in stepFailed) = ~crc.ok
       /\ crc.cmds = {19}
       /\ outcome # "threw"
       /\ pc \in {"programFlash_5", "programSRAM_3", "program_ret", "exit"}

\* the 16 bits differ and the header's checksum is the user code
C12_Witness ==
    /\ crc.ran /\ crc.ok /\ crc.ucode % 65536 # crc.checksum
    /\ crc.hdr # <<>> /\ outcome = "returned"


(***************************************************************************)
(* C13: the result of writeSRAM                                            *)
(***************************************************************************)
\* the last n elements of the sequence q
LastOf(q, n) == SubSeq(q, Len(q) - n + 1, Len(q))

\* C13: writeSRAM returns true exactly when the status register read after
\* the final CONFIG_DISABLE / NOOP has done-final set, for every image
\* length, 0 included.
C13_SramResult ==
    pc = "writeSRAM_ret" =>
       /\ ws.finalRead # "none"
       /\ ws.result = (ws.finalRead = "set")
       /\ LastOf(ws.cmds, IF verbose THEN 4 ELSE 3)
             = <<58, 2>> \o (IF verbose THEN <<65, 65>> ELSE <<65>>)

\* an empty image was loaded with success
C13_Witness == pc = "writeSRAM_ret" /\ ws.length = 0 /\ ws.result


(***************************************************************************)
(* C14: spi_put on the bit-bang path against a flash                       *)
(***************************************************************************)
\* C14: on the bit-bang path, with either pin mapping, the flash sees 8
\* rising clock edges per byte, samples on them the bytes of tx, most
\* significant bit first (zeros when tx is NULL), and rx holds exactly the
\* bytes the flash presented.
C14_RoundTrip ==
    (pc = "spi_ret" /\ spi.fn = "spi_put" /\ ~dev.is_gw2a) =>
       /\ spi.edges = 8 * spi.len
       /\ Len(spi.got) = spi.len
       /\ \A i \in 1..spi.len : spi.got[i] = IF spi.tx_null THEN 0 ELSE spi.tx[i]
       /\ spi.rx_wanted => spi.rx = spi.resp

\* two bytes, neither its own mirror image, went each way on the GW1NSR-4C
\* mapping
C14_Witness ==
    /\ pc = "spi_ret" /\ spi.fn = "spi_put" /\ idcode = GW1NSR4C
    /\ spi.len = 2 /\ ~spi.tx_null /\ spi.rx_wanted
    /\ spi.tx[2] = 180 /\ spi.rx = <<1, 128>>


(***************************************************************************)
(* C15: program() without an image                                         *)
(***************************************************************************)
\* C15: a session constructed without an image returns normally from
\* program() and has sent no JTAG operation of any kind, in both
\* programming modes and on every idcode.
C15_NoImage ==
    (Constructed /\ pc # "constructed" /\ file_ext = "") =>
       /\ pc = "exit" /\ outcome = "returned"
       /\ ~mon.touched /\ mon = MonInit
       /\ path = "none" /\ stepFailed = {}

\* program() returned at once for the flash of a GW5A
C15_Witness ==
    /\ pc = "exit" /\ outcome = "returned" /\ file_ext = ""
    /\ IsGw5a(idcode) /\ prg_type = "WR_FLASH" /\ ~mon.touched


(***************************************************************************)
(* C16: the chunks of writeSRAM                                            *)
(***************************************************************************)
RECURSIVE SumBits(_)
\* the bits of the chunks q together
SumBits(q) == IF q = <<>> THEN 0 ELSE q[1].bits + SumBits(Tail(q))

\* C16: for every image length above 0, the chunks writeSRAM shifted sum to
\* the image length, every chunk but the last leaves the TAP in shift-DR and
\* the last one takes it to run-test-idle, exact multiples of 524288
\* included.
C16_Chunks ==
    (pc = "writeSRAM_ret" /\ ws.length > 0) =>
       /\ SumBits(ws_chunks) = ws.length
       /\ \A i \in 1..(Len(ws_chunks) - 1) : ws_chunks[i].next = "SHIFT_DR"
       /\ ws_chunks # <<>>
       /\ ws_chunks[Len(ws_chunks)].next = "RUN_TEST_IDLE"


(***************************************************************************)
(* C17: the page addresses of writeFLASH                                   *)
(***************************************************************************)
\* the claim as stated: the address shifted for the k-th page, k counted
\* from 0, is the argument page plus k, and the settle delay precedes
\* exactly the pages of non-zero address
C17_Original ==
    \A k \in 1..Len(wf_sent) :
       /\ wf_sent[k].addr = wf.page + (k - 1)
       /\ wf_sent[k].delay = (wf_sent[k].addr # 0)

\* C17: the address shifted for the k-th page of writeFLASH, k counted from
\* 0, is the argument page plus 64 * k (a page is 64 words of 32 bits), and
\* the settle delay before the first command of a page is inserted exactly
\* for the pages whose address is not zero.
C17_PageAddress ==
    \A k \in 1..Len(wf_sent) :
       /\ wf_sent[k].addr = wf.page + (PageSize \div 4) * (k - 1)
       /\ wf_sent[k].delay = (wf_sent[k].addr # 0)

\* three pages were written from address 0: the first without the delay,
\* the others after it
C17_Witness ==
    /\ Len(wf_sent) = 3 /\ wf.page = 0
    /\ ~wf_sent[1].delay /\ wf_sent[2].delay /\ wf_sent[3].addr = 128


(***************************************************************************)
(* C18: the steps of eraseSRAM                                             *)
(***************************************************************************)
\* the order the steps are claimed to have
EraseSramOrder ==
    <<"config-enable", "poll edit-mode set", "erase-sram", "no-op",
      "poll memory-erase set", "transfer-done", "no-op", "config-disable",
      "no-op", "poll edit-mode clear", "status-read">>

\* the places of the three polls in EraseSramOrder
PollPlaces == <<2, 5, 10>>

\* the steps logged so far, the reads made only to be displayed left out
CoreSteps == SelectSeq(es.steps, LAMBDA st : st # "display")

\* C18: the steps eraseSRAM has issued are at every moment the first ones of
\* config-enable, poll edit-mode set, erase-SRAM, no-op, poll memory-erase
\* set, transfer-done, no-op, config-disable, no-op, poll edit-mode clear,
\* status read (status reads made only to be displayed aside); once a poll
\* has timed out that poll stays the last step; eraseSRAM returns true
\* exactly when the three polls succeeded and the final status read has
\* done-final cleared.
C18_EraseSram ==
    es.on =>
       /\ Len(CoreSteps) <= Len(EraseSramOrder)
       /\ CoreSteps = SubSeq(EraseSramOrder, 1, Len(CoreSteps))
       /\ Len(es.polls) <= 3
       /\ \A i \in 1..Len(es.polls) :
             ~es.polls[i] => (i = Len(es.polls) /\ Len(CoreSteps) = PollPlaces[i])
       /\ (es.finalRead # "none") = (Len(CoreSteps) = Len(EraseSramOrder))
       /\ pc = "eraseSRAM_ret" =>
             /\ es.result = (/\ es.polls = <<TRUE, TRUE, TRUE>>
                             /\ es.finalRead = "clear")
             /\ es.result => CoreSteps = EraseSramOrder
             /\ (es.polls = <<TRUE, TRUE, TRUE>>) => CoreSteps = EraseSramOrder

\* eraseSRAM went through all its steps and succeeded
C18_Witness ==
    /\ pc = "eraseSRAM_ret" /\ es.result /\ verbose
    /\ CoreSteps = EraseSramOrder /\ Len(es.steps) = Len(EraseSramOrder) + 3


(***************************************************************************)
(* C19: a disableCfg that fails                                            *)
(***************************************************************************)
\* the observer apart from its findings: what the operations sent so far
\* left behind
Sent(m) == [m EXCEPT !.bad = {}]

\* C19: when disableCfg has returned false to eraseSRAM, eraseFLASH,
\* writeFLASH or programExtFlash (on every family), the next thing that
\* operation does is to report failure (return false, or throw from
\* programExtFlash), without another erase or write step.
C19_DisableFailure ==
    [][(~ret /\ pc \in {"eraseSRAM_3", "eraseFLASH_3", "writeFLASH_1",
                        "programExtFlash_3", "programExtFlash_5"}) =>
          /\ Sent(mon') = Sent(mon)
          /\ pc = "eraseSRAM_3" => (pc' = "eraseSRAM_ret" /\ ~es'.result)
          /\ pc = "eraseFLASH_3" => (pc' = "eraseFLASH_ret" /\ ~ef'.result)
          /\ pc = "writeFLASH_1" => (pc' = "writeFLASH_ret" /\ ~wf'.result)
          /\ pc \in {"programExtFlash_3", "programExtFlash_5"} => outcome' = "threw"]_vars


(***************************************************************************)
(* C20: the order of programSRAM                                           *)
(***************************************************************************)
\* the claimed orders of the calls of programSRAM and of their results
SramOrders ==
    {<<"eraseSRAM", "eraseSRAM true", "writeSRAM", "writeSRAM true", "checkCRC">>,
     <<"eraseSRAM", "eraseSRAM true", "writeSRAM", "writeSRAM true">>,
     <<"eraseSRAM", "eraseSRAM true", "writeSRAM", "writeSRAM false">>,
     <<"eraseSRAM", "eraseSRAM false">>}

\* what the GW5A work-around sends: RELOAD, NOOP (each followed by 5
\* clocks), run-test-idle, 1000000 clocks
Gw5aPreamble ==
    <<"reload", "clk 5", "no-op", "clk 5", "RUN_TEST_IDLE", "clk 1000000">>

\* the elements of the sequence q
Range(q) == {q[i] : i \in 1..Len(q)}

\* C20: programSRAM calls eraseSRAM, then writeSRAM only after eraseSRAM
\* returned true, then checkCRC only after writeSRAM returned true, and
\* never checkCRC on a GW2A or GW5A idcode, whose sessions are flagged
\* skip-checksum; on GW5A the last operations sent before the call of
\* eraseSRAM are RELOAD, NOOP, run-test-idle and 1000000 clocks, and on the
\* other families none of them is sent there.
C20_SramOrder ==
    ps.calls # <<>> =>
       /\ \E o \in SramOrders :
             Len(ps.calls) <= Len(o) /\ ps.calls = SubSeq(o, 1, Len(ps.calls))
       /\ (IsGw2a(idcode) \/ IsGw5a(idcode)) =>
             (dev.skip_checksum /\ "checkCRC" \notin Range(ps.calls))
       /\ "writeSRAM true" \in Range(ps.calls) /\ pc = "programSRAM_3" =>
             (("checkCRC" \in Range(ps.calls)) = ~dev.skip_checksum)
       /\ IF IsGw5a(idcode)
          THEN /\ Len(ps.pre) >= Len(Gw5aPreamble)
               /\ LastOf(ps.pre, Len(Gw5aPreamble)) = Gw5aPreamble
          ELSE Range(ps.pre) \cap {"reload", "clk 1000000", "RUN_TEST_IDLE"} = {}
       /\ pc \in {"writeSRAM", "writeSRAM_loop", "writeSRAM_ret"} =>
             ps.calls[Len(ps.calls)] = "writeSRAM"
       /\ pc = "checkCRC" /\ path = "programSRAM" =>
             ps.calls[Len(ps.calls)] = "checkCRC"

\* a GW5A was erased after the work-around and loaded; its checksum was not
\* compared
C20_Witness ==
    /\ IsGw5a(idcode) /\ pc = "programSRAM_3" /\ verbose
    /\ ps.calls = <<"eraseSRAM", "eraseSRAM true", "writeSRAM", "writeSRAM true">>


(***************************************************************************)
(* C21: the two reads that end eraseFLASH                                  *)
(***************************************************************************)
\* C21: eraseFLASH returns true exactly when the status read that followed
\* one of its erase attempts showed done-final cleared, and the read after
\* the loop shows what the read that ended the loop showed.
C21_LoopReadDecides ==
    pc = "eraseFLASH_ret" =>
       /\ ef.result = (ef.loopRead = "clear")
       /\ ef.finalRead # "none" => ef.finalRead = ef.loopRead


(***************************************************************************)
(* C22: the buffers of spi_put on the assisted path                        *)
(***************************************************************************)
\* C22: on the assisted path, for every len and with or without a response,
\* spi_put reads tx, writes rx and accesses jtx and jrx only at the indexes
\* 0..len-1, len being the length it was called with.
C22_InBounds ==
    (pc = "spi_ret" /\ spi.fn = "spi_put" /\ dev.is_gw2a) =>
       \A buf \in {"tx", "rx", "jtx", "jrx"} : spi.acc[buf] \subseteq 0..(spi.size - 1)

====
